---- MODULE Spec2Model ----
(***************************************************************************)
(* Model of the noaa client library (package noaa): the process-wide       *)
(* configuration (config.go), the request/decode pipeline (http.go) and    *)
(* the accessors with the points cache (noaa.go).                          *)
(*                                                                         *)
(* Go strings are TLA+ strings, built with \o where the code formats them. *)
(* A pointer is an address into `heap` (0 is the nil pointer).  An error   *)
(* value is a record [type, msg]; NoErr is the nil error.  One action is   *)
(* one exported function, run to completion; the answers of the remote     *)
(* service are inputs of the action.                                       *)
(***************************************************************************)
EXTENDS Integers, Sequences, FiniteSets, TLC

VARIABLES
    config,       \* var config Config                     (config.go)
    pointsCache,  \* var pointsCache map[string]*PointsResponse (noaa.go)
    heap,         \* the PointsResponse objects allocated by decode
    fetched,      \* history: endpoint -> PointsResponse objects fetched for it
    ret,          \* what the latest call did and returned
    held,         \* what the calling program holds: the Config GetConfig gave
                  \* it, the client SetClient gave it and the one it passed
    period,       \* a ForecastResponsePeriod of a decoded forecast
    calls         \* goroutine -> where its call of Points stands, with the
                  \* locals of the call

vars == <<config, pointsCache, heap, fetched, ret, held, period, calls>>

-----------------------------------------------------------------------------
(* Bounds *)

\* PointsResponse objects allocated in one behaviour
MaxRecords == 2

\* goroutines that call Points at the same time
MaxCalls == 2

-----------------------------------------------------------------------------
(* Constants of the package *)

API == "https://api.weather.gov"
APIKey == "github.com/icodealot/noaa"
APIAccept == "application/ld+json"

\* http.StatusOK
StatusOK == 200

\* the value of the feature-flags header
FeatureFlags == "forecast_temperature_qv, forecast_wind_speed_qv"

\* a nil *http.Client and http.DefaultClient
NilClient == "nil"
DefaultClient == "http.DefaultClient"

\* the nil pointer, the nil error
Nil == 0
NoErr == [type |-> "nil", msg |-> ""]

-----------------------------------------------------------------------------
(* Inputs *)

MockURL == "http://127.0.0.1:8080"
BaseURLs == {API, MockURL}
UserAgents == {APIKey, "(myweatherapp.com, contact@myweatherapp.com)"}
Accepts == {APIAccept, "application/geo+json"}
Clients == {NilClient, DefaultClient}
\* a client whose timeout is over before any answer can come
ShortTimeoutClient == "&http.Client{Timeout: time.Millisecond}"
\* the clients a caller hands to SetClient
ClientInputs == Clients \cup {ShortTimeoutClient}

\* latitudes and longitudes as the caller writes them
Lats == {"41.8370", "41.837", "64.828421"}
Lons == {"-87.685"}
\* BadID makes the endpoint a string that net/url refuses to parse (invalid
\* URL escape)
BadID == "%zz"
OfficeIDs == {"LOT", BadID}

\* The argument of SetUnits, as its sequence of characters
UnitInputs == {<<>>, <<"u", "s">>, <<"s", "i">>, <<"S", "I">>, <<"U", "s">>,
               <<"m", "e", "t", "r", "i", "c">>}
\* The Units field of a Config handed to SetConfig
UnitStrings == {"", "us", "si", "SI", "metric"}

-----------------------------------------------------------------------------
(* strings *)

\* the characters of a string put together again
RECURSIVE Str(_)
Str(cs) == IF cs = <<>> THEN "" ELSE Head(cs) \o Str(Tail(cs))

\* unicode.ToLower on the letters the inputs are written with
LowerChar(c) ==
    CASE c = "U" -> "u"
      [] c = "S" -> "s"
      [] c = "I" -> "i"
      [] OTHER -> c

\* strings.ToLower
ToLower(cs) == [i \in DOMAIN cs |-> LowerChar(cs[i])]

-----------------------------------------------------------------------------
(* config.go *)

GetDefaultConfig ==
    [BaseURL |-> API, UserAgent |-> APIKey, Accept |-> APIAccept, Units |-> "",
     Client |-> NilClient]

\* fmt.Sprintf(templateEndpointOffices, config.BaseURL, id)
endpointOffices(cfg, id) == cfg.BaseURL \o "/offices/" \o id

\* endpointPoints on the base URL of the package, whatever is configured
endpointPointsNoBase(cfg, lat, lon) == API \o "/points/" \o lat \o "," \o lon

\* endpointPoints on the latitude with its trailing zero dropped
endpointPointsTrimmed(cfg, lat, lon) ==
    cfg.BaseURL \o "/points/" \o (IF lat = "41.8370" THEN "41.837" ELSE lat) \o "," \o lon

\* fmt.Sprintf(templateEndpointPoints, config.BaseURL, lat, lon)
endpointPoints(cfg, lat, lon) == cfg.BaseURL \o "/points/" \o lat \o "," \o lon

\* getUnitsQueryParam that writes the parameter for blank units too
getUnitsQueryParamAlways(cfg, prefix) == prefix \o "units=" \o cfg.Units

getUnitsQueryParam(cfg, prefix) ==
    IF cfg.Units # "" THEN prefix \o "units=" \o cfg.Units ELSE ""

\* isConfigValid that takes "us" and "si" alone for units
isConfigValidUnitsRequired(c) ==
    IF c.Units # "us" /\ c.Units # "si" THEN FALSE
    ELSE IF Len(c.Accept) = 0 \/ Len(c.BaseURL) = 0 \/ Len(c.UserAgent) = 0 THEN FALSE
    ELSE TRUE

\* isConfigValid without the check of the units
isConfigValidAnyUnits(c) ==
    IF Len(c.Accept) = 0 \/ Len(c.BaseURL) = 0 \/ Len(c.UserAgent) = 0 THEN FALSE
    ELSE TRUE

isConfigValid(c) ==
    IF Len(c.Units) > 0 /\ c.Units # "us" /\ c.Units # "si" THEN FALSE
    ELSE IF Len(c.Accept) = 0 \/ Len(c.BaseURL) = 0 \/ Len(c.UserAgent) = 0 THEN FALSE
    ELSE TRUE

\* the Config values a caller hands to SetConfig
ConfigInputs ==
    [BaseURL : BaseURLs \cup {""}, UserAgent : UserAgents \cup {""},
     Accept : Accepts \cup {""}, Units : UnitStrings, Client : Clients]

\* a nil result of any of the accessors
NoResult == [type |-> "nil", addr |-> Nil, Point |-> Nil, doc |-> ""]

\* what a configuration call leaves in ret
CfgRet(op, args, panicked) ==
    [op |-> op, args |-> args, out |-> IF panicked THEN "panic" ELSE "return",
     result |-> NoResult, err |-> NoErr, reqs |-> <<>>, base |-> config.BaseURL]

\* the body of SetUserAgent on configuration cfg
SetUserAgentCall(cfg, userAgent) ==
    IF Len(userAgent) = 0
    THEN [panic |-> TRUE, config |-> cfg]
    ELSE [panic |-> FALSE, config |-> [cfg EXCEPT !.UserAgent = userAgent]]

SetUserAgent(userAgent) ==
    \E r \in {SetUserAgentCall(config, userAgent)} :
    /\ config' = r.config
    /\ ret' = CfgRet("SetUserAgent", <<userAgent>>, r.panic)
    /\ UNCHANGED <<pointsCache, heap, fetched, held, period, calls>>

\* SetUnits that compares uom as it was given
SetUnitsCaseSensitive(cfg, uom) ==
    LET units == Str(uom) IN
    IF units # "us" /\ units # "si"
    THEN [panic |-> FALSE, config |-> [cfg EXCEPT !.Units = ""]]
    ELSE [panic |-> FALSE, config |-> [cfg EXCEPT !.Units = units]]

\* the body of SetUnits; uom is given as its characters
SetUnitsCall(cfg, uom) ==
    LET units == Str(ToLower(uom)) IN
    IF units # "us" /\ units # "si"
    THEN [panic |-> FALSE, config |-> [cfg EXCEPT !.Units = ""]]
    ELSE [panic |-> FALSE, config |-> [cfg EXCEPT !.Units = units]]

SetUnits(uom) ==
    \E r \in {SetUnitsCall(config, uom)} :
    /\ config' = r.config
    /\ ret' = CfgRet("SetUnits", <<Str(uom)>>, r.panic)
    /\ UNCHANGED <<pointsCache, heap, fetched, held, period, calls>>

\* the body of SetConfig
SetConfigCall(cfg, c) ==
    IF ~isConfigValid(c)
    THEN [panic |-> TRUE, config |-> cfg]
    ELSE [panic |-> FALSE, config |-> c]

SetConfig(c) ==
    \E r \in {SetConfigCall(config, c)} :
    /\ config' = r.config
    /\ ret' = CfgRet("SetConfig", <<c.BaseURL, c.UserAgent, c.Accept, c.Units, c.Client>>,
                     r.panic)
    /\ UNCHANGED <<pointsCache, heap, fetched, held, period, calls>>

\* SetBaseURL that assigns before it checks
SetBaseURLAssignFirst(cfg, url) ==
    [panic |-> Len(url) = 0, config |-> [cfg EXCEPT !.BaseURL = url]]

\* the body of SetBaseURL
SetBaseURLCall(cfg, url) ==
    IF Len(url) = 0
    THEN [panic |-> TRUE, config |-> cfg]
    ELSE [panic |-> FALSE, config |-> [cfg EXCEPT !.BaseURL = url]]

SetBaseURL(url) ==
    \E r \in {SetBaseURLCall(config, url)} :
    /\ config' = r.config
    /\ ret' = CfgRet("SetBaseURL", <<url>>, r.panic)
    /\ UNCHANGED <<pointsCache, heap, fetched, held, period, calls>>

\* the body of SetAcceptHeader
SetAcceptHeaderCall(cfg, accept) ==
    IF Len(accept) = 0
    THEN [panic |-> TRUE, config |-> cfg]
    ELSE [panic |-> FALSE, config |-> [cfg EXCEPT !.Accept = accept]]

SetAcceptHeader(accept) ==
    \E r \in {SetAcceptHeaderCall(config, accept)} :
    /\ config' = r.config
    /\ ret' = CfgRet("SetAcceptHeader", <<accept>>, r.panic)
    /\ UNCHANGED <<pointsCache, heap, fetched, held, period, calls>>

\* GetConfig that hands out a pointer to the package's config
GetConfigPointer(cfg) == [kind |-> "*Config", v |-> cfg]

\* the body of GetConfig: the struct is returned by value
GetConfigCall(cfg) == [kind |-> "Config", v |-> cfg]

GetConfig ==
    \E r \in {GetConfigCall(config)} :
    /\ held' = [held EXCEPT !.copy = r]
    /\ ret' = CfgRet("GetConfig", <<>>, FALSE)
    /\ UNCHANGED <<config, pointsCache, heap, fetched, period, calls>>

\* An assignment of the calling program to a field of what GetConfig gave
\* it (config.BaseURL = ...): it reaches the package's config only through
\* a pointer.
WriteCopy(field, value) ==
    /\ held.copy.kind # "none"
    /\ held' = [held EXCEPT !.copy.v[field] = value]
    /\ config' = IF held.copy.kind = "*Config"
                 THEN [config EXCEPT ![field] = value] ELSE config
    /\ ret' = CfgRet("WriteCopy", <<field, value>>, FALSE)
    /\ UNCHANGED <<pointsCache, heap, fetched, period, calls>>

\* SetClient that hands back the client it was given
SetClientReturnsNew(cfg, client) ==
    [previous |-> client, config |-> [cfg EXCEPT !.Client = client]]

\* The body of SetClient: the client is put in place and the one that was
\* in effect is handed back, which is http.DefaultClient when none was set.
SetClientCall(cfg, client) ==
    [previous |-> IF cfg.Client = NilClient THEN DefaultClient ELSE cfg.Client,
     config |-> [cfg EXCEPT !.Client = client]]

SetClient(client) ==
    \E r \in {SetClientCall(config, client)} :
    /\ config' = r.config
    /\ held' = [held EXCEPT !.old = r.previous, !.c = client]
    /\ ret' = [CfgRet("SetClient", <<client>>, FALSE) EXCEPT
                 !.result = [type |-> "*http.Client", addr |-> Nil, Point |-> Nil,
                             doc |-> r.previous]]
    /\ UNCHANGED <<pointsCache, heap, fetched, period, calls>>

-----------------------------------------------------------------------------
(* The remote service and the transport *)

\* the documents the service can send for a point: the grid cell it names
PointsDocs == {"LOT/74,71", "AFG/479,244"}
\* the documents it can send for every other endpoint
TargetDocs == {"doc"}

\* what json.Decoder finds in a body: the literal null, something that is
\* not the JSON the target type takes, or a document
NoBody == [kind |-> "none", doc |-> ""]
Bodies(docs) ==
    {[kind |-> "null", doc |-> ""], [kind |-> "malformed", doc |-> ""]}
        \cup {[kind |-> "object", doc |-> d] : d \in docs}

Statuses == {StatusOK, 404}

\* http.Response.Status of a status code
StatusLine(code) ==
    CASE code = StatusOK -> "200 OK"
      [] code = 201 -> "201 Created"
      [] code = 204 -> "204 No Content"
      [] code = 404 -> "404 Not Found"

\* what client.Do can come back with: an error of the transport, or a
\* response (the body of a response that is not 200 is never read)
NetErr == [kind |-> "neterr", status |-> 0, body |-> NoBody]
Responses(docs) ==
    {NetErr}
        \cup {[kind |-> "http", status |-> c, body |-> NoBody] : c \in Statuses \ {StatusOK}}
        \cup {[kind |-> "http", status |-> StatusOK, body |-> b] : b \in Bodies(docs)}

\* url.Parse inside http.NewRequest: of the endpoints the inputs can build,
\* those with BadID in the path are refused
InvalidURLs == {b \o "/offices/" \o BadID : b \in BaseURLs}
ValidURL(endpoint) == endpoint \notin InvalidURLs

-----------------------------------------------------------------------------
(* http.go *)

\* StatusError with the status text alone
StatusErrorNoCode(res) ==
    [type |-> "*errors.errorString", msg |-> StatusLine(res.status)]

\* errors.New(fmt.Sprintf("%d %s", res.StatusCode, res.Status))
StatusError(res) ==
    [type |-> "*errors.errorString",
     msg |-> ToString(res.status) \o " " \o StatusLine(res.status)]

\* the error of client.Do: a *url.Error with the method, the URL and what
\* went wrong, which for a client out of time is its timeout
DoError(client, endpoint) ==
    [type |-> "*url.Error",
     msg |-> "Get \"" \o endpoint \o "\": " \o
             (IF client = ShortTimeoutClient
              THEN "context deadline exceeded (Client.Timeout exceeded while awaiting headers)"
              ELSE "dial tcp: connect: connection refused")]

\* client.Do when the service would answer resp: a client out of time gets
\* no answer
Do(client, resp) == IF client = ShortTimeoutClient THEN NetErr ELSE resp

\* get that sends with http.DefaultClient when no client is configured and
\* leaves config.Client as it is
getKeepsNil(cfg, endpoint, resp) ==
    IF ~ValidURL(endpoint)
    THEN [res |-> NetErr, err |-> [type |-> "*url.Error", msg |-> "parse " \o endpoint],
          client |-> cfg.Client, reqs |-> <<>>]
    ELSE
    LET client == IF cfg.Client = NilClient THEN DefaultClient ELSE cfg.Client
        res == Do(client, resp)
        req == [url |-> endpoint, Accept |-> cfg.Accept, UserAgent |-> cfg.UserAgent,
                FeatureFlags |-> FeatureFlags, client |-> client,
                status |-> res.status, body |-> res.body.kind, open |-> FALSE]
    IN  IF res.kind = "neterr"
        THEN [res |-> NetErr, err |-> DoError(client, endpoint),
              client |-> cfg.Client, reqs |-> <<req>>]
        ELSE IF res.status # StatusOK
        THEN [res |-> NetErr, err |-> StatusError(res),
              client |-> cfg.Client, reqs |-> <<[req EXCEPT !.open = TRUE]>>]
        ELSE [res |-> res, err |-> NoErr, client |-> cfg.Client,
              reqs |-> <<[req EXCEPT !.open = TRUE]>>]

\* get that takes every 2xx status for a success
getAny2xx(cfg, endpoint, resp) ==
    IF ~ValidURL(endpoint)
    THEN [res |-> NetErr, err |-> [type |-> "*url.Error", msg |-> "parse " \o endpoint],
          client |-> cfg.Client, reqs |-> <<>>]
    ELSE
    LET client == IF cfg.Client = NilClient THEN DefaultClient ELSE cfg.Client
        res == Do(client, resp)
        req == [url |-> endpoint, Accept |-> cfg.Accept, UserAgent |-> cfg.UserAgent,
                FeatureFlags |-> FeatureFlags, client |-> client,
                status |-> res.status, body |-> res.body.kind, open |-> FALSE]
    IN  IF res.kind = "neterr"
        THEN [res |-> NetErr, err |-> DoError(client, endpoint),
              client |-> client, reqs |-> <<req>>]
        ELSE IF res.status < 200 \/ res.status > 299
        THEN [res |-> NetErr, err |-> StatusError(res),
              client |-> client, reqs |-> <<[req EXCEPT !.open = TRUE]>>]
        ELSE [res |-> res, err |-> NoErr, client |-> client,
              reqs |-> <<[req EXCEPT !.open = TRUE]>>]

\* get that puts http.DefaultClient in place before every request
getDefaultClient(cfg, endpoint, resp) ==
    IF ~ValidURL(endpoint)
    THEN [res |-> NetErr, err |-> [type |-> "*url.Error", msg |-> "parse " \o endpoint],
          client |-> cfg.Client, reqs |-> <<>>]
    ELSE
    LET req == [url |-> endpoint, Accept |-> cfg.Accept, UserAgent |-> cfg.UserAgent,
                FeatureFlags |-> FeatureFlags, client |-> DefaultClient,
                status |-> resp.status, body |-> resp.body.kind, open |-> FALSE]
    IN  IF resp.kind = "neterr"
        THEN [res |-> NetErr, err |-> DoError(DefaultClient, endpoint),
              client |-> DefaultClient, reqs |-> <<req>>]
        ELSE IF resp.status # StatusOK
        THEN [res |-> NetErr, err |-> StatusError(resp),
              client |-> DefaultClient, reqs |-> <<[req EXCEPT !.open = TRUE]>>]
        ELSE [res |-> resp, err |-> NoErr, client |-> DefaultClient,
              reqs |-> <<[req EXCEPT !.open = TRUE]>>]

\* get that writes the default headers of the package
getConstantHeaders(cfg, endpoint, resp) ==
    IF ~ValidURL(endpoint)
    THEN [res |-> NetErr, err |-> [type |-> "*url.Error", msg |-> "parse " \o endpoint],
          client |-> cfg.Client, reqs |-> <<>>]
    ELSE
    LET client == IF cfg.Client = NilClient THEN DefaultClient ELSE cfg.Client
        res == Do(client, resp)
        req == [url |-> endpoint, Accept |-> APIAccept, UserAgent |-> APIKey,
                FeatureFlags |-> FeatureFlags, client |-> client,
                status |-> res.status, body |-> res.body.kind, open |-> FALSE]
    IN  IF res.kind = "neterr"
        THEN [res |-> NetErr, err |-> DoError(client, endpoint),
              client |-> client, reqs |-> <<req>>]
        ELSE IF res.status # StatusOK
        THEN [res |-> NetErr, err |-> StatusError(res),
              client |-> client, reqs |-> <<[req EXCEPT !.open = TRUE]>>]
        ELSE [res |-> res, err |-> NoErr, client |-> client,
              reqs |-> <<[req EXCEPT !.open = TRUE]>>]

\* func get.  res is the response handed back (NetErr when none is), client
\* is config.Client after the call, reqs the requests sent with what came of
\* each (body: what the body of the response holds; open: the body was
\* obtained and is not closed)
get(cfg, endpoint, resp) ==
    IF ~ValidURL(endpoint)
    THEN [res |-> NetErr, err |-> [type |-> "*url.Error", msg |-> "parse " \o endpoint],
          client |-> cfg.Client, reqs |-> <<>>]
    ELSE
    LET client == IF cfg.Client = NilClient THEN DefaultClient ELSE cfg.Client
        res == Do(client, resp)
        req == [url |-> endpoint, Accept |-> cfg.Accept, UserAgent |-> cfg.UserAgent,
                FeatureFlags |-> FeatureFlags, client |-> client,
                status |-> res.status, body |-> res.body.kind, open |-> FALSE]
    IN  IF res.kind = "neterr"
        THEN [res |-> NetErr, err |-> DoError(client, endpoint),
              client |-> client, reqs |-> <<req>>]
        ELSE IF res.status # StatusOK
        THEN [res |-> NetErr, err |-> StatusError(res),
              client |-> client, reqs |-> <<[req EXCEPT !.open = TRUE]>>]
        ELSE [res |-> res, err |-> NoErr, client |-> client,
              reqs |-> <<[req EXCEPT !.open = TRUE]>>]

\* a pointer the decoder has not set, or has set to nil
NilValue == [nil |-> TRUE, doc |-> ""]

\* func decode.  v is what the pointer v points at after the call
decode(cfg, endpoint, resp) ==
    LET g == get(cfg, endpoint, resp) IN
    IF g.err # NoErr
    THEN [v |-> NilValue, err |-> g.err, client |-> g.client, reqs |-> g.reqs]
    ELSE
    LET closed == [i \in DOMAIN g.reqs |-> [g.reqs[i] EXCEPT !.open = FALSE]] IN
    IF g.res.body.kind = "malformed"
    THEN [v |-> NilValue, err |-> [type |-> "*json.SyntaxError", msg |-> "decode"],
          client |-> g.client, reqs |-> closed]
    ELSE IF g.res.body.kind = "null"
    THEN [v |-> NilValue, err |-> NoErr, client |-> g.client, reqs |-> closed]
    ELSE [v |-> [nil |-> FALSE, doc |-> g.res.body.doc], err |-> NoErr,
          client |-> g.client, reqs |-> closed]

PointsResponses == Responses(PointsDocs)
TargetResponses == Responses(TargetDocs)

-----------------------------------------------------------------------------
(* noaa.go *)

\* the PointsResponse decoded from a document of the service
PointsResponse(doc) ==
    [ID |-> API \o "/points/" \o doc,
     EndpointForecast |-> API \o "/gridpoints/" \o doc \o "/forecast",
     EndpointForecastHourly |-> API \o "/gridpoints/" \o doc \o "/forecast/hourly",
     EndpointObservationStations |-> API \o "/gridpoints/" \o doc \o "/stations",
     EndpointForecastGridData |-> API \o "/gridpoints/" \o doc]

\* Lookup that never finds the key
LookupMiss(cache, endpoint) == Nil

\* pointsCache[endpoint], nil when the map has no such key
Lookup(cache, endpoint) ==
    IF endpoint \in DOMAIN cache THEN cache[endpoint] ELSE Nil

\* Store into a cache that keeps the latest entry only
StoreEvict(cache, endpoint, points) == [k \in {endpoint} |-> points]

\* pointsCache[endpoint] = points
Store(cache, endpoint, points) ==
    [k \in DOMAIN cache \cup {endpoint} |-> IF k = endpoint THEN points ELSE cache[k]]

\* Points that stores what decode has left in points before it looks at the
\* error
PointsCallStoreFirst(cfg, cache, hp, lat, lon, resp) ==
    LET endpoint == endpointPoints(cfg, lat, lon) IN
    IF Lookup(cache, endpoint) # Nil
    THEN [points |-> Lookup(cache, endpoint), err |-> NoErr, cache |-> cache,
          heap |-> hp, client |-> cfg.Client, reqs |-> <<>>, got |-> ""]
    ELSE
    LET d == decode(cfg, endpoint, resp) IN
    IF d.err # NoErr
    THEN [points |-> Nil, err |-> d.err, cache |-> Store(cache, endpoint, Nil), heap |-> hp,
          client |-> d.client, reqs |-> d.reqs, got |-> ""]
    ELSE IF d.v.nil
    THEN [points |-> Nil, err |-> NoErr, cache |-> Store(cache, endpoint, Nil),
          heap |-> hp, client |-> d.client, reqs |-> d.reqs, got |-> ""]
    ELSE [points |-> Len(hp) + 1, err |-> NoErr,
          cache |-> Store(cache, endpoint, Len(hp) + 1),
          heap |-> Append(hp, PointsResponse(d.v.doc)),
          client |-> d.client, reqs |-> d.reqs, got |-> endpoint]

\* the body of Points on configuration cfg, cache and heap hp, when the
\* service answers resp.  got: the endpoint a PointsResponse was fetched
\* for, "" when none was
PointsCall(cfg, cache, hp, lat, lon, resp) ==
    LET endpoint == endpointPoints(cfg, lat, lon) IN
    IF Lookup(cache, endpoint) # Nil
    THEN [points |-> Lookup(cache, endpoint), err |-> NoErr, cache |-> cache,
          heap |-> hp, client |-> cfg.Client, reqs |-> <<>>, got |-> ""]
    ELSE
    LET d == decode(cfg, endpoint, resp) IN
    IF d.err # NoErr
    THEN [points |-> Nil, err |-> d.err, cache |-> cache, heap |-> hp,
          client |-> d.client, reqs |-> d.reqs, got |-> ""]
    ELSE IF d.v.nil
    THEN [points |-> Nil, err |-> NoErr, cache |-> Store(cache, endpoint, Nil),
          heap |-> hp, client |-> d.client, reqs |-> d.reqs, got |-> ""]
    ELSE [points |-> Len(hp) + 1, err |-> NoErr,
          cache |-> Store(cache, endpoint, Len(hp) + 1),
          heap |-> Append(hp, PointsResponse(d.v.doc)),
          client |-> d.client, reqs |-> d.reqs, got |-> endpoint]

\* what an accessor call leaves in ret
AccRet(op, args, out, result, err, reqs) ==
    [op |-> op, args |-> args, out |-> out, result |-> result, err |-> err,
     reqs |-> reqs, base |-> config.BaseURL]

\* the history of fetches after a points lookup that fetched for endpoint got
Count(f, got) ==
    IF got = "" THEN f
    ELSE [k \in DOMAIN f \cup {got} |->
            IF k \notin DOMAIN f THEN 1 ELSE IF k = got THEN f[k] + 1 ELSE f[k]]

\* the state after an accessor call: what its points lookup p has done, and
\* config.Client as its requests have left it
Effects(p, client) ==
    /\ Len(p.heap) <= MaxRecords
    /\ config' = [config EXCEPT !.Client = client]
    /\ pointsCache' = p.cache
    /\ heap' = p.heap
    /\ fetched' = Count(fetched, p.got)
    /\ UNCHANGED <<held, period, calls>>

\* The answers of the service to the requests of one call: one is drawn for
\* a request only when the call makes it (no points request on a cache hit,
\* no second request after a points lookup that gave no record).
FirstResponses(lat, lon) ==
    IF Lookup(pointsCache, endpointPoints(config, lat, lon)) # Nil
    THEN {NetErr} ELSE PointsResponses
SecondResponses(lat, lon, resp1) ==
    IF PointsCall(config, pointsCache, heap, lat, lon, resp1).points # Nil
    THEN TargetResponses ELSE {NetErr}

\* Points when the service answers resp
PointsAnswered(lat, lon, resp) ==
    \E p \in {PointsCall(config, pointsCache, heap, lat, lon, resp)} :
    /\ Effects(p, p.client)
    /\ ret' = IF p.err # NoErr
              THEN AccRet("Points", <<lat, lon>>, "return", NoResult, p.err, p.reqs)
              ELSE AccRet("Points", <<lat, lon>>, "return",
                          [type |-> IF p.points = Nil THEN "nil" ELSE "*PointsResponse",
                           addr |-> p.points, Point |-> Nil, doc |-> ""],
                          NoErr, p.reqs)

Points(lat, lon) ==
    \E resp \in FirstResponses(lat, lon) : PointsAnswered(lat, lon, resp)

\* Office that sends its request once more when the first one has failed
OfficeCallRetry(cfg, id, resp) ==
    LET d == decode(cfg, endpointOffices(cfg, id), resp) IN
    IF d.err # NoErr THEN [d EXCEPT !.reqs = d.reqs \o d.reqs] ELSE d

\* the body of Office
OfficeCall(cfg, id, resp) == decode(cfg, endpointOffices(cfg, id), resp)

\* Office when the service answers resp
OfficeAnswered(id, resp) ==
    \E d \in {OfficeCall(config, id, resp)} :
    /\ config' = [config EXCEPT !.Client = d.client]
    /\ UNCHANGED <<pointsCache, heap, fetched, held, period, calls>>
    /\ ret' = IF d.err # NoErr
              THEN AccRet("Office", <<id>>, "return", NoResult, d.err, d.reqs)
              ELSE AccRet("Office", <<id>>, "return",
                          [type |-> IF d.v.nil THEN "nil" ELSE "*OfficeResponse",
                           addr |-> Nil, Point |-> Nil, doc |-> d.v.doc],
                          NoErr, d.reqs)

Office(id) == \E resp \in TargetResponses : OfficeAnswered(id, resp)

\* Stations that returns an error of Points under a message of its own
StationsWrapError(cfg, p, resp2) ==
    IF p.err # NoErr
    THEN [out |-> "return", result |-> NoResult,
          err |-> [p.err EXCEPT !.msg = "points: " \o p.err.msg], p |-> p,
          client |-> p.client, reqs |-> p.reqs]
    ELSE IF p.points = Nil
    THEN [out |-> "panic", result |-> NoResult, err |-> NoErr, p |-> p,
          client |-> p.client, reqs |-> p.reqs]
    ELSE
    LET d == decode([cfg EXCEPT !.Client = p.client],
                    p.heap[p.points].EndpointObservationStations, resp2)
    IN
    IF d.err # NoErr
    THEN [out |-> "return", result |-> NoResult, err |-> d.err, p |-> p,
          client |-> d.client, reqs |-> p.reqs \o d.reqs]
    ELSE [out |-> "return",
          result |-> [type |-> IF d.v.nil THEN "nil" ELSE "*StationsResponse", addr |-> Nil,
                      Point |-> Nil, doc |-> d.v.doc],
          err |-> NoErr, p |-> p, client |-> d.client, reqs |-> p.reqs \o d.reqs]

\* Stations from the return of its call of Points, p; resp2 answers the second request
StationsAfterPoints(cfg, p, resp2) ==
    IF p.err # NoErr
    THEN [out |-> "return", result |-> NoResult, err |-> p.err, p |-> p,
          client |-> p.client, reqs |-> p.reqs]
    ELSE IF p.points = Nil
    THEN \* point.EndpointObservationStations with point nil
         [out |-> "panic", result |-> NoResult, err |-> NoErr, p |-> p,
          client |-> p.client, reqs |-> p.reqs]
    ELSE
    LET d == decode([cfg EXCEPT !.Client = p.client],
                    p.heap[p.points].EndpointObservationStations, resp2)
    IN
    IF d.err # NoErr
    THEN [out |-> "return", result |-> NoResult, err |-> d.err, p |-> p,
          client |-> d.client, reqs |-> p.reqs \o d.reqs]
    ELSE [out |-> "return",
          result |-> [type |-> IF d.v.nil THEN "nil" ELSE "*StationsResponse", addr |-> Nil,
                      Point |-> Nil, doc |-> d.v.doc],
          err |-> NoErr, p |-> p, client |-> d.client, reqs |-> p.reqs \o d.reqs]

\* the body of Stations: resp1 answers the points request, resp2 the second one
StationsCall(cfg, cache, hp, lat, lon, resp1, resp2) ==
    StationsAfterPoints(cfg, PointsCall(cfg, cache, hp, lat, lon, resp1), resp2)

Stations(lat, lon) ==
    \E resp1 \in FirstResponses(lat, lon) :
    \E resp2 \in SecondResponses(lat, lon, resp1) :
        \E r \in {StationsCall(config, pointsCache, heap, lat, lon, resp1, resp2)} :
        /\ Effects(r.p, r.client)
        /\ ret' = AccRet("Stations", <<lat, lon>>, r.out, r.result, r.err, r.reqs)

\* Forecast from the return of its call of Points, p; resp2 answers the second request
ForecastAfterPoints(cfg, p, resp2) ==
    IF p.err # NoErr
    THEN [out |-> "return", result |-> NoResult, err |-> p.err, p |-> p,
          client |-> p.client, reqs |-> p.reqs]
    ELSE IF p.points = Nil
    THEN \* point.EndpointForecast with point nil
         [out |-> "panic", result |-> NoResult, err |-> NoErr, p |-> p,
          client |-> p.client, reqs |-> p.reqs]
    ELSE
    LET d == decode([cfg EXCEPT !.Client = p.client],
                    p.heap[p.points].EndpointForecast \o getUnitsQueryParam(cfg, "?"), resp2)
    IN
    IF d.err # NoErr
    THEN [out |-> "return", result |-> NoResult, err |-> d.err, p |-> p,
          client |-> d.client, reqs |-> p.reqs \o d.reqs]
    ELSE IF d.v.nil
    THEN \* forecast.Point = point with forecast nil
         [out |-> "panic", result |-> NoResult, err |-> NoErr, p |-> p,
          client |-> d.client, reqs |-> p.reqs \o d.reqs]
    ELSE [out |-> "return",
          result |-> [type |-> "*ForecastResponse", addr |-> Nil, Point |-> p.points,
                      doc |-> d.v.doc],
          err |-> NoErr, p |-> p, client |-> d.client, reqs |-> p.reqs \o d.reqs]

\* the body of Forecast: resp1 answers the points request, resp2 the second one
ForecastCall(cfg, cache, hp, lat, lon, resp1, resp2) ==
    ForecastAfterPoints(cfg, PointsCall(cfg, cache, hp, lat, lon, resp1), resp2)

\* Forecast when the service answers resp1 and then resp2
ForecastAnswered(lat, lon, resp1, resp2) ==
    \E r \in {ForecastCall(config, pointsCache, heap, lat, lon, resp1, resp2)} :
    /\ Effects(r.p, r.client)
    /\ ret' = AccRet("Forecast", <<lat, lon>>, r.out, r.result, r.err, r.reqs)

Forecast(lat, lon) ==
    \E resp1 \in FirstResponses(lat, lon) :
    \E resp2 \in SecondResponses(lat, lon, resp1) :
        ForecastAnswered(lat, lon, resp1, resp2)

\* GridpointForecast that does not set forecast.Point
GridpointForecastNoPoint(cfg, p, resp2) ==
    IF p.err # NoErr
    THEN [out |-> "return", result |-> NoResult, err |-> p.err, p |-> p,
          client |-> p.client, reqs |-> p.reqs]
    ELSE IF p.points = Nil
    THEN [out |-> "panic", result |-> NoResult, err |-> NoErr, p |-> p,
          client |-> p.client, reqs |-> p.reqs]
    ELSE
    LET d == decode([cfg EXCEPT !.Client = p.client],
                    p.heap[p.points].EndpointForecastGridData \o getUnitsQueryParam(cfg, "?"), resp2)
    IN
    IF d.err # NoErr
    THEN [out |-> "return", result |-> NoResult, err |-> d.err, p |-> p,
          client |-> d.client, reqs |-> p.reqs \o d.reqs]
    ELSE [out |-> "return",
          result |-> [type |-> IF d.v.nil THEN "nil" ELSE "*GridpointForecastResponse",
                      addr |-> Nil, Point |-> Nil, doc |-> d.v.doc],
          err |-> NoErr, p |-> p, client |-> d.client, reqs |-> p.reqs \o d.reqs]

\* GridpointForecast from the return of its call of Points, p; resp2 answers the second request
GridpointForecastAfterPoints(cfg, p, resp2) ==
    IF p.err # NoErr
    THEN [out |-> "return", result |-> NoResult, err |-> p.err, p |-> p,
          client |-> p.client, reqs |-> p.reqs]
    ELSE IF p.points = Nil
    THEN \* point.EndpointForecastGridData with point nil
         [out |-> "panic", result |-> NoResult, err |-> NoErr, p |-> p,
          client |-> p.client, reqs |-> p.reqs]
    ELSE
    LET d == decode([cfg EXCEPT !.Client = p.client],
                    p.heap[p.points].EndpointForecastGridData \o getUnitsQueryParam(cfg, "?"), resp2)
    IN
    IF d.err # NoErr
    THEN [out |-> "return", result |-> NoResult, err |-> d.err, p |-> p,
          client |-> d.client, reqs |-> p.reqs \o d.reqs]
    ELSE IF d.v.nil
    THEN \* forecast.Point = point with forecast nil
         [out |-> "panic", result |-> NoResult, err |-> NoErr, p |-> p,
          client |-> d.client, reqs |-> p.reqs \o d.reqs]
    ELSE [out |-> "return",
          result |-> [type |-> "*GridpointForecastResponse", addr |-> Nil, Point |-> p.points,
                      doc |-> d.v.doc],
          err |-> NoErr, p |-> p, client |-> d.client, reqs |-> p.reqs \o d.reqs]

\* the body of GridpointForecast: resp1 answers the points request, resp2 the second one
GridpointForecastCall(cfg, cache, hp, lat, lon, resp1, resp2) ==
    GridpointForecastAfterPoints(cfg, PointsCall(cfg, cache, hp, lat, lon, resp1), resp2)

GridpointForecast(lat, lon) ==
    \E resp1 \in FirstResponses(lat, lon) :
    \E resp2 \in SecondResponses(lat, lon, resp1) :
        \E r \in {GridpointForecastCall(config, pointsCache, heap, lat, lon, resp1, resp2)} :
        /\ Effects(r.p, r.client)
        /\ ret' = AccRet("GridpointForecast", <<lat, lon>>, r.out, r.result, r.err, r.reqs)

\* HourlyForecast from the return of its call of Points, p; resp2 answers the second request
HourlyForecastAfterPoints(cfg, p, resp2) ==
    IF p.err # NoErr
    THEN [out |-> "return", result |-> NoResult, err |-> p.err, p |-> p,
          client |-> p.client, reqs |-> p.reqs]
    ELSE IF p.points = Nil
    THEN \* point.EndpointForecastHourly with point nil
         [out |-> "panic", result |-> NoResult, err |-> NoErr, p |-> p,
          client |-> p.client, reqs |-> p.reqs]
    ELSE
    LET d == decode([cfg EXCEPT !.Client = p.client],
                    p.heap[p.points].EndpointForecastHourly \o getUnitsQueryParam(cfg, "?"), resp2)
    IN
    IF d.err # NoErr
    THEN [out |-> "return", result |-> NoResult, err |-> d.err, p |-> p,
          client |-> d.client, reqs |-> p.reqs \o d.reqs]
    ELSE IF d.v.nil
    THEN \* forecast.Point = point with forecast nil
         [out |-> "panic", result |-> NoResult, err |-> NoErr, p |-> p,
          client |-> d.client, reqs |-> p.reqs \o d.reqs]
    ELSE [out |-> "return",
          result |-> [type |-> "*HourlyForecastResponse", addr |-> Nil, Point |-> p.points,
                      doc |-> d.v.doc],
          err |-> NoErr, p |-> p, client |-> d.client, reqs |-> p.reqs \o d.reqs]

\* the body of HourlyForecast: resp1 answers the points request, resp2 the second one
HourlyForecastCall(cfg, cache, hp, lat, lon, resp1, resp2) ==
    HourlyForecastAfterPoints(cfg, PointsCall(cfg, cache, hp, lat, lon, resp1), resp2)

HourlyForecast(lat, lon) ==
    \E resp1 \in FirstResponses(lat, lon) :
    \E resp2 \in SecondResponses(lat, lon, resp1) :
        \E r \in {HourlyForecastCall(config, pointsCache, heap, lat, lon, resp1, resp2)} :
        /\ Effects(r.p, r.client)
        /\ ret' = AccRet("HourlyForecast", <<lat, lon>>, r.out, r.result, r.err, r.reqs)

-----------------------------------------------------------------------------
(* The unit normalizer *)

\* the unit codes of the service for temperatures and wind speeds
DegC == "wmoUnit:degC"
DegF == "wmoUnit:degF"
KmH == "wmoUnit:km_h-1"
MiH == "wmoUnit:mi_h-1"

\* A float64 is the exact fraction n/d (d > 0).
Num(v) == [n |-> v, d |-> 1]
\* (5/9)(F - 32)
FtoC(v) == [n |-> 5 * (v - 32), d |-> 9]
\* (9/5)C + 32
CtoF(v) == [n |-> 9 * v + 160, d |-> 5]
\* miles to kilometres, kilometres to miles
MiToKm(v) == [n |-> 160934 * v, d |-> 100000]
KmToMi(v) == [n |-> 62137 * v, d |-> 100000]

\* the nearest integer of a fraction that is not negative
Round(q) == (2 * q.n + q.d) \div (2 * q.d)

\* a QuantitativeValue
QuantitativeValue(value, max, min, unitCode) ==
    [Value |-> value, MaxValue |-> max, MinValue |-> min, UnitCode |-> unitCode]

\* a ForecastResponsePeriod as decode leaves it: the fields without a JSON
\* name are the zero values
ForecastResponsePeriod(temperature, windSpeed) ==
    [Temperature |-> Num(0), TemperatureUnit |-> "", WindSpeed |-> "",
     QuantitativeTemperature |-> temperature, QuantitativeWindSpeed |-> windSpeed]

\* the periods the service sends
TemperatureInputs ==
    {QuantitativeValue(v, 0, 0, u) : v \in {-40, 25, 32, 76}, u \in {DegC, DegF, ""}}
WindSpeedInputs ==
    {QuantitativeValue(w[1], w[3], w[2], u) :
        w \in {<<12, 0, 0>>, <<0, 5, 10>>, <<7, 0, 10>>, <<20, 16, 24>>}, u \in {KmH, MiH}}
PeriodInputs ==
    {ForecastResponsePeriod(t, w) : t \in TemperatureInputs, w \in WindSpeedInputs}

\* the normalizer that writes a range whenever the minimum is not zero
NormalizeUnitsMinOnly(cfg, p) ==
    LET t == p.QuantitativeTemperature
        w == p.QuantitativeWindSpeed
        si == cfg.Units = "si"
        conv(v) == IF si THEN (IF w.UnitCode # KmH THEN MiToKm(v) ELSE Num(v))
                   ELSE (IF w.UnitCode = KmH THEN KmToMi(v) ELSE Num(v))
        unit == IF si THEN "km/h" ELSE "mph"
    IN  [p EXCEPT
            !.TemperatureUnit = IF si THEN "C" ELSE "F",
            !.Temperature = IF si
                            THEN (IF t.UnitCode # DegC THEN FtoC(t.Value) ELSE Num(t.Value))
                            ELSE (IF t.UnitCode = DegC THEN CtoF(t.Value) ELSE Num(t.Value)),
            !.WindSpeed = IF w.MinValue = 0
                          THEN ToString(Round(conv(w.Value))) \o " " \o unit
                          ELSE ToString(Round(conv(w.MinValue))) \o " to "
                                 \o ToString(Round(conv(w.MaxValue))) \o " " \o unit]

\* the normalizer that converts to SI whatever the unit of the source
NormalizeUnitsAlwaysConvert(cfg, p) ==
    LET t == p.QuantitativeTemperature
        w == p.QuantitativeWindSpeed
        si == cfg.Units = "si"
        conv(v) == IF si THEN MiToKm(v) ELSE IF w.UnitCode = KmH THEN KmToMi(v) ELSE Num(v)
        unit == IF si THEN "km/h" ELSE "mph"
    IN  [p EXCEPT
            !.TemperatureUnit = IF si THEN "C" ELSE "F",
            !.Temperature = IF si THEN FtoC(t.Value)
                            ELSE IF t.UnitCode = DegC THEN CtoF(t.Value) ELSE Num(t.Value),
            !.WindSpeed = IF w.MinValue = 0 /\ w.MaxValue = 0
                          THEN ToString(Round(conv(w.Value))) \o " " \o unit
                          ELSE ToString(Round(conv(w.MinValue))) \o " to "
                                 \o ToString(Round(conv(w.MaxValue))) \o " " \o unit]

\* The unit normalizer on one period: the display fields are written from
\* the quantitative ones, in the units of the configuration.
NormalizeUnits(cfg, p) ==
    LET t == p.QuantitativeTemperature
        w == p.QuantitativeWindSpeed
        si == cfg.Units = "si"
        conv(v) == IF si THEN (IF w.UnitCode # KmH THEN MiToKm(v) ELSE Num(v))
                   ELSE (IF w.UnitCode = KmH THEN KmToMi(v) ELSE Num(v))
        unit == IF si THEN "km/h" ELSE "mph"
    IN  [p EXCEPT
            !.TemperatureUnit = IF si THEN "C" ELSE "F",
            !.Temperature = IF si
                            THEN (IF t.UnitCode # DegC THEN FtoC(t.Value) ELSE Num(t.Value))
                            ELSE (IF t.UnitCode = DegC THEN CtoF(t.Value) ELSE Num(t.Value)),
            !.WindSpeed = IF w.MinValue = 0 /\ w.MaxValue = 0
                          THEN ToString(Round(conv(w.Value))) \o " " \o unit
                          ELSE ToString(Round(conv(w.MinValue))) \o " to "
                                 \o ToString(Round(conv(w.MaxValue))) \o " " \o unit]

\* the normalizer runs over the period
Normalize ==
    /\ period' = NormalizeUnits(config, period)
    /\ ret' = CfgRet("NormalizeUnits", <<>>, FALSE)
    /\ UNCHANGED <<config, pointsCache, heap, fetched, held, calls>>

\* a forecast is decoded and its period is p
DecodePeriod(p) ==
    /\ period' = p
    /\ ret' = CfgRet("DecodePeriod", <<>>, FALSE)
    /\ UNCHANGED <<config, pointsCache, heap, fetched, held, calls>>

-----------------------------------------------------------------------------
(* The specifications *)

\* the goroutines of the calling program
Goroutines == 1 .. MaxCalls

\* a goroutine that is not in Points
Idle == [pc |-> "idle", lat |-> "", lon |-> "", endpoint |-> "", points |-> Nil,
         reqs |-> <<>>]

Init ==
    /\ config = GetDefaultConfig
    /\ pointsCache = <<>>
    /\ heap = <<>>
    /\ fetched = <<>>
    /\ ret = [op |-> "init", args |-> <<>>, out |-> "return", result |-> NoResult,
              err |-> NoErr, reqs |-> <<>>, base |-> API]
    /\ held = [copy |-> [kind |-> "none", v |-> GetDefaultConfig],
               old |-> "none", c |-> "none"]
    /\ period = ForecastResponsePeriod(QuantitativeValue(0, 0, 0, ""),
                                       QuantitativeValue(0, 0, 0, ""))
    /\ calls = [g \in Goroutines |-> Idle]

\* The client as a whole.  Points and Forecast take every coordinate, the
\* other accessors one; the setters take an empty string, a unit in capitals,
\* an unknown unit, and the defaults.
Next ==
    \/ \E userAgent \in {"", APIKey} : SetUserAgent(userAgent)
    \/ \E uom \in {<<"S", "I">>, <<"m", "e", "t", "r", "i", "c">>} : SetUnits(uom)
    \/ \E c \in {GetDefaultConfig, [GetDefaultConfig EXCEPT !.Units = "metric"]} :
        SetConfig(c)
    \/ \E url \in {"", API} : SetBaseURL(url)
    \/ \E accept \in {"", APIAccept} : SetAcceptHeader(accept)
    \/ \E lat \in Lats, lon \in Lons : Points(lat, lon)
    \/ \E id \in OfficeIDs : Office(id)
    \/ \E lat \in {"41.837"}, lon \in Lons : Stations(lat, lon)
    \/ \E lat \in Lats, lon \in Lons : Forecast(lat, lon)
    \/ \E lat \in {"41.837"}, lon \in Lons : GridpointForecast(lat, lon)
    \/ \E lat \in {"41.837"}, lon \in Lons : HourlyForecast(lat, lon)

Spec == Init /\ [][Next]_vars

\* The configuration store alone, with every input of the setters.
NextConfig ==
    \/ \E userAgent \in UserAgents \cup {""} : SetUserAgent(userAgent)
    \/ \E uom \in UnitInputs : SetUnits(uom)
    \/ \E c \in ConfigInputs : SetConfig(c)
    \/ \E url \in BaseURLs \cup {""} : SetBaseURL(url)
    \/ \E accept \in Accepts \cup {""} : SetAcceptHeader(accept)

SpecConfig == Init /\ [][NextConfig]_vars

\* A program that reads the configuration, writes to its copy and changes
\* the headers, with requests in between.
NextCopy ==
    \/ \E userAgent \in UserAgents \cup {""} : SetUserAgent(userAgent)
    \/ \E accept \in Accepts : SetAcceptHeader(accept)
    \/ \E uom \in {<<"s", "i">>} : SetUnits(uom)
    \/ GetConfig
    \/ \E value \in UserAgents : WriteCopy("UserAgent", value)
    \/ \E value \in {MockURL} : WriteCopy("BaseURL", value)
    \/ \E id \in OfficeIDs : Office(id)
    \/ \E lat \in {"41.837"}, lon \in Lons : Forecast(lat, lon)

SpecCopy == Init /\ [][NextCopy]_vars

\* A program that changes the client, with requests in between.
NextClient ==
    \/ \E client \in ClientInputs : SetClient(client)
    \/ \E lat \in {"41.837"}, lon \in Lons : Points(lat, lon)
    \/ \E lat \in {"41.837"}, lon \in Lons : Stations(lat, lon)
    \/ \E lat \in {"41.837"}, lon \in Lons : HourlyForecast(lat, lon)

SpecClient == Init /\ [][NextClient]_vars

\* The unit normalizer on the periods of the service, under every unit
\* preference.
NextUnits ==
    \/ \E uom \in UnitInputs : SetUnits(uom)
    \/ \E p \in PeriodInputs : DecodePeriod(p)
    \/ Normalize

SpecUnits == Init /\ [][NextUnits]_vars

-----------------------------------------------------------------------------
(* Properties *)

\* the exported functions that reach the network
ForecastOps == {"Stations", "Forecast", "GridpointForecast", "HourlyForecast"}
AccessorOps == {"Points", "Office"} \cup ForecastOps

\* the points endpoint of the call r (an accessor call with lat and lon)
KeyOf(r) == endpointPoints([config EXCEPT !.BaseURL = r.base], r.args[1], r.args[2])

\* the requests of the call r that went to url
RequestsTo(r, url) == {i \in DOMAIN r.reqs : r.reqs[i].url = url}

\* the value a map holds for key k, 0 when it holds none
At(f, k) == IF k \in DOMAIN f THEN f[k] ELSE 0

\* r returned a record and no error
Succeeded(r) == r.out = "return" /\ r.err = NoErr /\ r.result.type # "nil"

\* C1: a Points call right after a successful Points call with the same lat
\* and lon strings, under the same base URL, issues no request and returns
\* the record the first call returned, which is the one in the cache; the
\* two calls together issue at most the one request of the first call.
C1_SecondPointsFromCache ==
    [][(/\ ret.op = "Points" /\ Succeeded(ret)
        /\ ret'.op = "Points" /\ ret'.args = ret.args /\ ret'.base = ret.base)
       => (/\ ret'.reqs = <<>>
           /\ Succeeded(ret')
           /\ ret'.result.addr = ret.result.addr
           /\ ret'.result.addr = pointsCache[KeyOf(ret)]
           /\ Len(ret.reqs) + Len(ret'.reqs) <= 1
           /\ pointsCache' = pointsCache)]_vars

\* a Points call was served from the cache after exactly one fetch
C1_Witness ==
    /\ ret.op = "Points" /\ Succeeded(ret) /\ ret.reqs = <<>>
    /\ At(fetched, KeyOf(ret)) = 1

\* C2: no endpoint has had a PointsResponse fetched for it more than once,
\* and a forecast accessor called for a pair whose record is cached sends no
\* points request and works with the cached record.
C2_FetchedOnce ==
    /\ [](\A e \in DOMAIN fetched : fetched[e] <= 1)
    /\ [][(/\ ret'.op \in ForecastOps
           /\ At(pointsCache, KeyOf(ret')) # Nil)
          => (/\ RequestsTo(ret', KeyOf(ret')) = {}
              /\ Len(ret'.reqs) = 1
              /\ pointsCache' = pointsCache /\ heap' = heap /\ fetched' = fetched
              /\ (Succeeded(ret') /\ ret'.op # "Stations"
                    => ret'.result.Point = pointsCache[KeyOf(ret')]))]_vars

\* a forecast succeeded on a cached record, with no points request
C2_Witness ==
    /\ ret.op = "Forecast" /\ Succeeded(ret) /\ Len(ret.reqs) = 1
    /\ RequestsTo(ret, KeyOf(ret)) = {}
    /\ At(fetched, KeyOf(ret)) = 1
    /\ ret.result.Point = pointsCache[KeyOf(ret)]

\* the pairs of coordinate strings a caller can pass
Pairs == Lats \X Lons

\* C3: coordinate pairs that differ as strings have different endpoints; a
\* Points call for an endpoint with no record in the cache sends a request,
\* whatever other endpoints are cached, and on success its record is a new
\* one under its own key.
C3_LiteralKey ==
    /\ [](\A a \in Pairs, b \in Pairs :
            a # b => endpointPoints(config, a[1], a[2]) # endpointPoints(config, b[1], b[2]))
    /\ [][(ret'.op = "Points" /\ At(pointsCache, KeyOf(ret')) = Nil)
          => (/\ Len(ret'.reqs) = 1
              /\ ret'.reqs[1].url = KeyOf(ret')
              /\ Succeeded(ret') =>
                    /\ pointsCache'[KeyOf(ret')] = ret'.result.addr
                    /\ \A k \in DOMAIN pointsCache :
                          k # KeyOf(ret') => /\ pointsCache'[k] = pointsCache[k]
                                             /\ pointsCache'[k] # ret'.result.addr)]_vars

\* "41.8370" and "41.837" each have their own record, each fetched once
C3_Witness ==
    LET a == endpointPoints(config, "41.8370", "-87.685")
        b == endpointPoints(config, "41.837", "-87.685")
    IN  /\ At(pointsCache, a) # Nil /\ At(pointsCache, b) # Nil
        /\ pointsCache[a] # pointsCache[b]
        /\ fetched[a] = 1 /\ fetched[b] = 1
        /\ ret.op = "Points" /\ Len(ret.reqs) = 1

\* C4: no step takes a key out of the cache, points a key that holds a
\* record at another record, or changes the content of a cached record; a
\* key is added only by a call whose request to that key was answered 200.
\* (A key stored with a nil pointer holds no record.)
C4_CacheGrowsOnly ==
    [][/\ \A k \in DOMAIN pointsCache :
            /\ k \in DOMAIN pointsCache'
            /\ pointsCache[k] # Nil =>
                  /\ pointsCache'[k] = pointsCache[k]
                  /\ heap'[pointsCache[k]] = heap[pointsCache[k]]
       /\ \A k \in DOMAIN pointsCache' :
            (k \notin DOMAIN pointsCache \/ pointsCache'[k] # pointsCache[k])
                => /\ ret'.op \in AccessorOps
                   /\ \E i \in RequestsTo(ret', k) : ret'.reqs[i].status = StatusOK]_vars

\* the cache holds two records and the latest call added nothing
C4_Witness ==
    /\ Cardinality({k \in DOMAIN pointsCache : pointsCache[k] # Nil}) = 2
    /\ ret.op \in AccessorOps /\ ret.reqs # <<>> /\ ret.err # NoErr

\* statuses outside 200..299
Non2xx(status) == status # 0 /\ (status < 200 \/ status > 299)

\* C5: when a request of an accessor call is answered with a non-2xx status,
\* the call returns the error made of the status code and the status text,
\* returns no result, and that request is the last one of the call.
C5_StatusError ==
    ret.op \in AccessorOps =>
        \A i \in DOMAIN ret.reqs :
            Non2xx(ret.reqs[i].status) =>
                /\ ret.out = "return"
                /\ ret.err.msg = ToString(ret.reqs[i].status) \o " "
                                    \o StatusLine(ret.reqs[i].status)
                /\ ret.result = NoResult
                /\ i = Len(ret.reqs)
                /\ RequestsTo(ret, ret.reqs[i].url) = {i}

\* a forecast whose second request was answered 404
C5_Witness ==
    /\ ret.op = "Forecast" /\ Len(ret.reqs) = 2
    /\ ret.reqs[2].status = 404 /\ ret.err.msg = "404 404 Not Found"

\* C6: every accessor call returns, with either a result and no error or
\* an error and no result.
C6_ResultOrError ==
    ret.op \in AccessorOps =>
        /\ ret.out = "return"
        /\ \/ ret.result.type # "nil" /\ ret.err = NoErr
           \/ ret.result.type = "nil" /\ ret.err # NoErr

\* C7: no request of a call has left its response body open when the call
\* is over.
C7_BodiesClosed == \A i \in DOMAIN ret.reqs : ~ret.reqs[i].open

\* C8: SetUserAgent, SetBaseURL and SetAcceptHeader with an empty string
\* panic and leave the configuration as it was; with a non-empty string they
\* return and change their own field to it, and no other field.
C8_SingleFieldSetters ==
    [][/\ ret'.op = "SetUserAgent" =>
            IF ret'.args[1] = ""
            THEN ret'.out = "panic" /\ config' = config
            ELSE /\ ret'.out = "return"
                 /\ config' = [config EXCEPT !.UserAgent = ret'.args[1]]
       /\ ret'.op = "SetBaseURL" =>
            IF ret'.args[1] = ""
            THEN ret'.out = "panic" /\ config' = config
            ELSE /\ ret'.out = "return"
                 /\ config' = [config EXCEPT !.BaseURL = ret'.args[1]]
       /\ ret'.op = "SetAcceptHeader" =>
            IF ret'.args[1] = ""
            THEN ret'.out = "panic" /\ config' = config
            ELSE /\ ret'.out = "return"
                 /\ config' = [config EXCEPT !.Accept = ret'.args[1]]]_vars

\* SetBaseURL("") has panicked on a configuration that is not the default one
C8_Witness ==
    /\ ret.op = "SetBaseURL" /\ ret.args = <<"">> /\ ret.out = "panic"
    /\ config.BaseURL = MockURL /\ config.UserAgent # APIKey /\ config.Units = "si"

\* C9: SetConfig panics and leaves the configuration as it was when the
\* given one has an empty base URL, user-agent or accept header, or units
\* other than "us", "si" and ""; otherwise it returns and the configuration
\* is the given one, field by field.
C9_SetConfig ==
    [][ret'.op = "SetConfig" =>
        LET a == ret'.args IN
        IF a[1] = "" \/ a[2] = "" \/ a[3] = "" \/ a[4] \notin {"us", "si", ""}
        THEN ret'.out = "panic" /\ config' = config
        ELSE /\ ret'.out = "return"
             /\ config'.BaseURL = a[1] /\ config'.UserAgent = a[2]
             /\ config'.Accept = a[3] /\ config'.Units = a[4]
             /\ config'.Client = a[5]]_vars

\* SetConfig has panicked on units "SI" alone, on a configuration that is
\* not the default one
C9_Witness ==
    /\ ret.op = "SetConfig" /\ ret.out = "panic"
    /\ ret.args[1] # "" /\ ret.args[2] # "" /\ ret.args[3] # "" /\ ret.args[4] = "SI"
    /\ config.BaseURL = MockURL /\ config.Units = "us"

\* the unit a string names, whatever the case of its letters
UnitNamed(uom) ==
    IF uom \in {"us", "Us", "uS", "US"} THEN "us"
    ELSE IF uom \in {"si", "Si", "sI", "SI"} THEN "si"
    ELSE ""

\* C10: SetUnits returns, sets the units to "us" or "si" when given that
\* word in any letter case and to "" when given anything else, and changes
\* no other field.
C10_SetUnits ==
    [][ret'.op = "SetUnits" =>
        /\ ret'.out = "return"
        /\ config' = [config EXCEPT !.Units = UnitNamed(ret'.args[1])]]_vars

\* SetUnits("SI") has set the units to "si" on a configuration that is not
\* the default one
C10_Witness ==
    /\ ret.op = "SetUnits" /\ ret.args = <<"SI">> /\ config.Units = "si"
    /\ config.UserAgent # APIKey

\* C11: GetConfig hands the caller the configuration as it is, with the
\* values of the latest setter calls that returned, and changes nothing; a
\* write of the caller to what it was given leaves the configuration as it
\* was; and every request carries the headers and the base URL of the
\* configuration, whatever the caller's copy holds.
C11_GetConfigCopy ==
    [][/\ ret'.op = "GetConfig" =>
            /\ held'.copy.v = config /\ config' = config
            /\ (ret.op = "SetUserAgent" /\ ret.out = "return"
                    => held'.copy.v.UserAgent = ret.args[1])
            /\ (ret.op = "SetAcceptHeader" /\ ret.out = "return"
                    => held'.copy.v.Accept = ret.args[1])
            /\ (ret.op = "SetUnits" => held'.copy.v.Units = UnitNamed(ret.args[1]))
       /\ ret'.op = "WriteCopy" =>
            /\ config' = config
            /\ held'.copy.v[ret'.args[1]] = ret'.args[2]
       /\ ret'.op \in AccessorOps =>
            \A i \in DOMAIN ret'.reqs :
                /\ ret'.reqs[i].UserAgent = config.UserAgent
                /\ ret'.reqs[i].Accept = config.Accept
                /\ (i = 1 /\ ret'.op = "Office")
                      => ret'.reqs[i].url = endpointOffices(config, ret'.args[1])
                /\ (i = 1 /\ ret'.op # "Office" /\ Len(ret'.reqs) = 2)
                      => ret'.reqs[i].url
                            = endpointPoints(config, ret'.args[1], ret'.args[2])]_vars

\* the caller has written another user-agent and base URL to its copy, and a
\* request has gone out with those of the configuration
C11_Witness ==
    /\ ret.op = "Office" /\ Len(ret.reqs) = 1
    /\ held.copy.kind = "Config"
    /\ held.copy.v.UserAgent # config.UserAgent /\ held.copy.v.BaseURL = MockURL
    /\ config.BaseURL = API /\ config.UserAgent # APIKey
    /\ ret.reqs[1].UserAgent = config.UserAgent
    /\ ret.reqs[1].url = API \o "/offices/LOT"

\* the client requests go out with when config.Client is c
InEffect(c) == IF c = NilClient THEN DefaultClient ELSE c

TimeoutError(url) ==
    [type |-> "*url.Error",
     msg |-> "Get \"" \o url
                \o "\": context deadline exceeded (Client.Timeout exceeded while awaiting headers)"]

\* C13: every request of an accessor call goes out with the client in effect
\* when the call is made, and the call leaves that client in effect; under
\* the short-timeout client a call that needs the network makes one request
\* and returns the client's error as it is, with no result; under
\* http.DefaultClient (restored, or selected by nil) no call returns that
\* error, and a call whose requests are all answered 200 with a document
\* succeeds.
C13_ClientInEffect ==
    [][ret'.op \in AccessorOps =>
        /\ \A i \in DOMAIN ret'.reqs : ret'.reqs[i].client = InEffect(config.Client)
        /\ InEffect(config'.Client) = InEffect(config.Client)
        /\ (InEffect(config.Client) = ShortTimeoutClient /\ ret'.reqs # <<>>) =>
              /\ Len(ret'.reqs) = 1
              /\ ret'.out = "return" /\ ret'.result = NoResult
              /\ ret'.err = TimeoutError(ret'.reqs[1].url)
        /\ InEffect(config.Client) = DefaultClient =>
              /\ \A i \in DOMAIN ret'.reqs : ret'.err # TimeoutError(ret'.reqs[i].url)
              /\ (\A i \in DOMAIN ret'.reqs :
                      ret'.reqs[i].status = StatusOK /\ ret'.reqs[i].body = "object")
                    => Succeeded(ret')]_vars

\* an hourly forecast has succeeded with two requests after SetClient(nil)
\* took the short-timeout client out
C13_Witness ==
    /\ ret.op = "HourlyForecast" /\ Succeeded(ret) /\ Len(ret.reqs) = 2
    /\ held.old = ShortTimeoutClient /\ held.c = NilClient
    /\ ret.reqs[2].client = DefaultClient

\* the requests of the call r that did not go to its points endpoint
TargetRequests(r) == {i \in DOMAIN r.reqs : r.reqs[i].url # KeyOf(r)}

\* the field of a PointsResponse that holds the endpoint of an accessor
FieldOf(op, rec) ==
    CASE op = "Forecast" -> rec.EndpointForecast
      [] op = "HourlyForecast" -> rec.EndpointForecastHourly
      [] op = "GridpointForecast" -> rec.EndpointForecastGridData
      [] op = "Stations" -> rec.EndpointObservationStations

\* "?units=<pref>" when a unit preference is configured
UnitsSuffix(units) == IF units \in {"us", "si"} THEN "?units=" \o units ELSE ""

PointsFailed(q) == q.status # StatusOK \/ q.body = "malformed"

\* the error Points returns for such a request
PointsError(q) ==
    IF q.status = 0 THEN DoError(q.client, q.url)
    ELSE IF q.status # StatusOK
    THEN [type |-> "*errors.errorString",
          msg |-> ToString(q.status) \o " " \o StatusLine(q.status)]
    ELSE [type |-> "*json.SyntaxError", msg |-> "decode"]

\* C16: when the points request of Forecast, HourlyForecast,
\* GridpointForecast or Stations ends in an error, the accessor returns that
\* error as it is, with no result, and sends no request to the target
\* endpoint; the cache is left as it was.
C16_PointsErrorPropagated ==
    [][(/\ ret'.op \in ForecastOps /\ ret'.reqs # <<>>
        /\ ret'.reqs[1].url = KeyOf(ret') /\ PointsFailed(ret'.reqs[1]))
       => (/\ ret'.out = "return"
           /\ ret'.err = PointsError(ret'.reqs[1])
           /\ ret'.result = NoResult
           /\ Len(ret'.reqs) = 1 /\ TargetRequests(ret') = {}
           /\ pointsCache' = pointsCache /\ heap' = heap)]_vars

\* Stations has returned the 404 of its points request
C16_Witness ==
    /\ ret.op = "Stations" /\ Len(ret.reqs) = 1
    /\ ret.reqs[1].url = KeyOf(ret) /\ ret.reqs[1].status = 404
    /\ ret.err.msg = "404 404 Not Found" /\ ret.result = NoResult

\* the accessors that take a latitude and a longitude
PointOps == {"Points"} \cup ForecastOps

\* C17: an accessor call sends at most two requests.  A points request is
\* the first request of its call and is sent only when the cache holds no
\* record for the endpoint.  When there are two requests, the first is the
\* points request, it has been answered 200 with a record and its body is
\* closed, and the second goes to the URL that record holds for the
\* accessor: the target request starts after the points request is over.
C17_TwoSequentialRequests ==
    [][/\ ret'.op \in AccessorOps => Len(ret'.reqs) <= 2
       /\ ret'.op \in {"Office", "Points"} => Len(ret'.reqs) <= 1
       /\ ret'.op \in PointOps =>
            /\ \A i \in DOMAIN ret'.reqs :
                  ret'.reqs[i].url = KeyOf(ret')
                      => i = 1 /\ At(pointsCache, KeyOf(ret')) = Nil
            /\ Len(ret'.reqs) = 2 =>
                  /\ ret'.reqs[1].url = KeyOf(ret')
                  /\ ret'.reqs[1].status = StatusOK /\ ret'.reqs[1].body = "object"
                  /\ ~ret'.reqs[1].open
                  /\ At(pointsCache', KeyOf(ret')) \notin DOMAIN heap
                  /\ ret'.reqs[2].url
                        = FieldOf(ret'.op, heap'[pointsCache'[KeyOf(ret')]])
                            \o (IF ret'.op = "Stations" THEN ""
                                ELSE UnitsSuffix(config.Units))]_vars

\* an hourly forecast has made its two requests, and both were answered
C17_Witness ==
    /\ ret.op = "HourlyForecast" /\ Len(ret.reqs) = 2
    /\ ret.reqs[1].url = KeyOf(ret) /\ ~ret.reqs[1].open
    /\ ret.reqs[2].status = StatusOK
    /\ ret.reqs[2].url = heap[pointsCache[KeyOf(ret)]].EndpointForecastHourly
                            \o UnitsSuffix(config.Units)

C19_Temperature ==
    ret.op = "NormalizeUnits" =>
        LET t == period.QuantitativeTemperature
            T == period.Temperature
        IN  /\ T.d > 0
            /\ IF config.Units = "si"
               THEN /\ period.TemperatureUnit = "C"
                    /\ IF t.UnitCode = DegC
                       THEN T.n = t.Value * T.d
                       ELSE 9 * T.n = 5 * (t.Value - 32) * T.d
               ELSE /\ period.TemperatureUnit = "F"
                    /\ IF t.UnitCode = DegC
                       THEN 5 * T.n = (9 * t.Value + 160) * T.d
                       ELSE T.n = t.Value * T.d

\* 76 degrees Fahrenheit have been displayed in SI units, as 220/9 C
C19_Witness ==
    /\ ret.op = "NormalizeUnits" /\ config.Units = "si"
    /\ period.QuantitativeTemperature.UnitCode = DegF
    /\ period.QuantitativeTemperature.Value = 76
    /\ period.TemperatureUnit = "C"
    /\ 9 * period.Temperature.n = 220 * period.Temperature.d

\* k is the integer nearest to v * f / 100000 (a half goes up)
Nearest(k, v, f) ==
    /\ 2 * v * f >= (2 * k - 1) * 100000
    /\ 2 * v * f < (2 * k + 1) * 100000

\* the integers a wind speed can be displayed as
Speeds == 0 .. 50

\* C20: after the normalizer has run over a period, the wind-speed string is
\* "<value> <unit>" when the minimum and the maximum of the quantitative wind
\* speed are both zero and "<min> to <max> <unit>" in every other case, each
\* number brought to the display unit and rounded to the nearest integer,
\* with <unit> "mph" unless the units are "si"; so 12 mph with no range gives
\* "12 mph" and 5 to 10 mph gives "5 to 10 mph" under US units.
C20_WindSpeed ==
    ret.op = "NormalizeUnits" =>
        LET w == period.QuantitativeWindSpeed
            si == config.Units = "si"
            unit == IF si THEN "km/h" ELSE "mph"
            f == IF si /\ w.UnitCode # KmH THEN 160934
                 ELSE IF ~si /\ w.UnitCode = KmH THEN 62137
                 ELSE 100000
        IN  /\ IF w.MinValue = 0 /\ w.MaxValue = 0
               THEN \E k \in Speeds :
                        /\ Nearest(k, w.Value, f)
                        /\ period.WindSpeed = ToString(k) \o " " \o unit
               ELSE \E a \in Speeds, b \in Speeds :
                        /\ Nearest(a, w.MinValue, f) /\ Nearest(b, w.MaxValue, f)
                        /\ period.WindSpeed
                              = ToString(a) \o " to " \o ToString(b) \o " " \o unit
            /\ (~si /\ w = QuantitativeValue(12, 0, 0, MiH))
                    => period.WindSpeed = "12 mph"
            /\ (~si /\ w = QuantitativeValue(0, 10, 5, MiH))
                    => period.WindSpeed = "5 to 10 mph"

\* a wind speed with a minimum of zero and a maximum of 10 has been
\* displayed as a range, under US units
C20_Witness ==
    /\ ret.op = "NormalizeUnits" /\ config.Units = "us"
    /\ period.QuantitativeWindSpeed = QuantitativeValue(7, 10, 0, MiH)
    /\ period.WindSpeed = "0 to 10 mph"

-----------------------------------------------------------------------------
(* The forecasts with their periods *)

\* the periods the service sends in the runs that follow the periods
SomePeriods ==
    {ForecastResponsePeriod(QuantitativeValue(76, 0, 0, DegF),
                            QuantitativeValue(12, 0, 0, MiH)),
     ForecastResponsePeriod(QuantitativeValue(25, 0, 0, DegC),
                            QuantitativeValue(20, 24, 16, KmH))}

\* the state after a call of Forecast or HourlyForecast that has come to r,
\* when the document of the service holds the period p: the period of the
\* result is p as decode has left it, nothing else is written to it before
\* the return
PeriodEffects(r, p) ==
    /\ Len(r.p.heap) <= MaxRecords
    /\ config' = [config EXCEPT !.Client = r.client]
    /\ pointsCache' = r.p.cache
    /\ heap' = r.p.heap
    /\ fetched' = Count(fetched, r.p.got)
    /\ period' = IF r.out = "return" /\ r.err = NoErr THEN p ELSE period
    /\ UNCHANGED <<held, calls>>

\* Forecast, followed to the periods of its result
ForecastPeriods(lat, lon, p) ==
    \E resp1 \in FirstResponses(lat, lon) :
    \E resp2 \in SecondResponses(lat, lon, resp1) :
        \E r \in {ForecastCall(config, pointsCache, heap, lat, lon, resp1, resp2)} :
        /\ PeriodEffects(r, p)
        /\ ret' = AccRet("Forecast", <<lat, lon>>, r.out, r.result, r.err, r.reqs)

\* HourlyForecast, followed to the periods of its result
HourlyForecastPeriods(lat, lon, p) ==
    \E resp1 \in FirstResponses(lat, lon) :
    \E resp2 \in SecondResponses(lat, lon, resp1) :
        \E r \in {HourlyForecastCall(config, pointsCache, heap, lat, lon, resp1, resp2)} :
        /\ PeriodEffects(r, p)
        /\ ret' = AccRet("HourlyForecast", <<lat, lon>>, r.out, r.result, r.err, r.reqs)

\* Forecasts of every kind under both unit preferences.
NextPeriods ==
    \/ \E uom \in {<<"u", "s">>, <<"s", "i">>} : SetUnits(uom)
    \/ \E lat \in {"41.837"}, lon \in Lons, p \in SomePeriods : ForecastPeriods(lat, lon, p)
    \/ \E lat \in {"41.837"}, lon \in Lons, p \in SomePeriods :
        HourlyForecastPeriods(lat, lon, p)
    \/ \E lat \in {"41.837"}, lon \in Lons : GridpointForecast(lat, lon)
    \/ \E lat \in {"41.837"}, lon \in Lons : Stations(lat, lon)

SpecPeriods == Init /\ [][NextPeriods]_vars

\* C21: the period of every successful Forecast and HourlyForecast result
\* is returned as the unit normalizer leaves it under the configured units,
\* and a GridpointForecast or Stations call writes to no period.
C21_PeriodsNormalized ==
    [][/\ (ret'.op \in {"Forecast", "HourlyForecast"} /\ Succeeded(ret'))
            => period' = NormalizeUnits(config', period')
       /\ ret'.op \in {"GridpointForecast", "Stations"} => period' = period]_vars

-----------------------------------------------------------------------------
(* The statuses of success other than 200 *)

\* the answers of the service with another 2xx status: 201 with a document
\* in the body, 204 with no body
Responses2xx(docs) ==
    {[kind |-> "http", status |-> 201, body |-> [kind |-> "object", doc |-> d]] : d \in docs}
        \cup {[kind |-> "http", status |-> 204, body |-> NoBody]}

\* the answers to the requests of one call, those of Responses2xx among them
FirstAnswers(lat, lon) ==
    IF Lookup(pointsCache, endpointPoints(config, lat, lon)) # Nil
    THEN {NetErr} ELSE PointsResponses \cup Responses2xx(PointsDocs)
SecondAnswers(lat, lon, resp1) ==
    IF PointsCall(config, pointsCache, heap, lat, lon, resp1).points # Nil
    THEN TargetResponses \cup Responses2xx(TargetDocs) ELSE {NetErr}

\* The accessors against a service that answers with every status.
NextStatus ==
    \/ \E lat \in {"41.837", "41.8370"}, lon \in Lons :
        \E resp \in FirstAnswers(lat, lon) : PointsAnswered(lat, lon, resp)
    \/ \E id \in OfficeIDs :
        \E resp \in TargetResponses \cup Responses2xx(TargetDocs) : OfficeAnswered(id, resp)
    \/ \E lat \in {"41.837", "41.8370"}, lon \in Lons :
        \E resp1 \in FirstAnswers(lat, lon) :
        \E resp2 \in SecondAnswers(lat, lon, resp1) :
            ForecastAnswered(lat, lon, resp1, resp2)

SpecStatus == Init /\ [][NextStatus]_vars

\* C22: when a request of an accessor call is answered with a status other
\* than 200, 201 and 204 among them, the call returns the error made of the
\* status code and text and no result, the request is the last one of the
\* call, and nothing is decoded from its body: no record is made of it and
\* the cache keeps what it held for the request's URL.
C22_Not200IsFailure ==
    [][ret'.op \in AccessorOps =>
        \A i \in DOMAIN ret'.reqs :
            ret'.reqs[i].status \notin {0, StatusOK} =>
                /\ ret'.out = "return"
                /\ ret'.err = [type |-> "*errors.errorString",
                               msg |-> ToString(ret'.reqs[i].status) \o " "
                                          \o StatusLine(ret'.reqs[i].status)]
                /\ ret'.result = NoResult
                /\ i = Len(ret'.reqs)
                /\ Len(heap') = Len(heap) + (i - 1)
                /\ At(pointsCache', ret'.reqs[i].url) = At(pointsCache, ret'.reqs[i].url)]_vars

\* Office has been answered 201 with a document in the body and has
\* returned the status error and no result
C22_Witness ==
    /\ ret.op = "Office" /\ Len(ret.reqs) = 1
    /\ ret.reqs[1].status = 201 /\ ret.reqs[1].body = "object"
    /\ ret.err.msg = "201 201 Created" /\ ret.result = NoResult

\* the error of json.Decoder for a body that is not the JSON of the target
DecodeError == [type |-> "*json.SyntaxError", msg |-> "decode"]

\* C23: when a request of an accessor call is answered 200 with a body that
\* cannot be decoded, the call returns the decode error and no result and
\* sends no further request; the body is closed; and when the request was
\* the points request, of Points or of another accessor, the cache and the
\* records are left as they were.
C23_DecodeError ==
    [][ret'.op \in AccessorOps =>
        \A i \in DOMAIN ret'.reqs :
            (ret'.reqs[i].status = StatusOK /\ ret'.reqs[i].body = "malformed") =>
                /\ ret'.out = "return"
                /\ ret'.err = DecodeError
                /\ ret'.result = NoResult
                /\ i = Len(ret'.reqs)
                /\ ~ret'.reqs[i].open
                /\ (ret'.op \in PointOps /\ ret'.reqs[i].url = KeyOf(ret'))
                      => pointsCache' = pointsCache /\ heap' = heap
                /\ ret'.op = "Points" => pointsCache' = pointsCache]_vars

\* Points has returned a decode error while the cache held the record of
\* another endpoint, and holds nothing for this one
C23_Witness ==
    /\ ret.op = "Points" /\ Len(ret.reqs) = 1
    /\ ret.reqs[1].body = "malformed" /\ ret.err = DecodeError
    /\ DOMAIN pointsCache # {} /\ KeyOf(ret) \notin DOMAIN pointsCache

\* C24: after any sequence of SetUserAgent, SetBaseURL, SetAcceptHeader,
\* SetUnits and SetConfig calls, returning or panicking, the base URL, the
\* user-agent and the accept header of the configuration are not empty and
\* its units are "", "us" or "si".
C24_ConfigValid ==
    /\ Len(config.BaseURL) > 0
    /\ Len(config.UserAgent) > 0
    /\ Len(config.Accept) > 0
    /\ config.Units \in {"", "us", "si"}

\* SetConfig has panicked on a Config with an empty base URL and unknown
\* units, on a configuration that other calls have changed in every field
C24_Witness ==
    /\ ret.op = "SetConfig" /\ ret.out = "panic"
    /\ ret.args[1] = "" /\ ret.args[4] = "metric"
    /\ config.BaseURL = MockURL /\ config.UserAgent # APIKey
    /\ config.Accept # APIAccept /\ config.Units = "si"

\* the arguments of SetConfig(c) as ret keeps them
ArgsOf(c) == <<c.BaseURL, c.UserAgent, c.Accept, c.Units, c.Client>>

\* C25: in every reachable state, SetConfig called with what GetConfig
\* returns in that state returns and leaves the configuration as it was, and
\* SetConfig called with what GetDefaultConfig returns returns and leaves
\* the default base URL, user-agent, accept header and units.
C25_SetConfigRoundTrip ==
    [][ret'.op = "SetConfig" =>
        /\ ret'.args = ArgsOf(GetConfigCall(config).v) =>
              ret'.out = "return" /\ config' = config
        /\ ret'.args = ArgsOf(GetDefaultConfig) =>
              /\ ret'.out = "return"
              /\ config'.BaseURL = API /\ config'.UserAgent = APIKey
              /\ config'.Accept = APIAccept /\ config'.Units = ""]_vars

\* SetConfig(GetDefaultConfig()) has brought back the defaults from a
\* configuration with another base URL
C25_Witness ==
    /\ ret.op = "SetConfig" /\ ret.args = ArgsOf(GetDefaultConfig) /\ ret.out = "return"
    /\ ret.base = MockURL
    /\ config = GetDefaultConfig

\* C26: a Points call that returns an error leaves the cache, the records
\* and the history of fetches as they were, and a Points call for the same
\* endpoint right after it sends a request again; a Points call sends one
\* request to its endpoint as long as no record has been fetched for the
\* endpoint and none once one has, and the call that succeeds with a request
\* is the one fetch of its endpoint.
C26_FailedPointsNotCached ==
    [][ret'.op = "Points" =>
        /\ ret'.err # NoErr =>
              /\ pointsCache' = pointsCache /\ heap' = heap /\ fetched' = fetched
              /\ ret'.result = NoResult
        /\ (/\ ret.op = "Points" /\ ret.err # NoErr
            /\ ret'.args = ret.args /\ ret'.base = ret.base)
              => Len(ret'.reqs) = 1
        /\ Len(ret'.reqs) = IF At(fetched, KeyOf(ret')) = 0 THEN 1 ELSE 0
        /\ \A i \in DOMAIN ret'.reqs : ret'.reqs[i].url = KeyOf(ret')
        /\ (Succeeded(ret') /\ ret'.reqs # <<>>) =>
              /\ At(fetched, KeyOf(ret')) = 0
              /\ fetched'[KeyOf(ret')] = 1]_vars

\* Points has come back with an error of the transport for an endpoint the
\* cache holds nothing for, while it holds the record of another endpoint
C26_Witness ==
    /\ ret.op = "Points" /\ Len(ret.reqs) = 1 /\ ret.reqs[1].status = 0
    /\ ret.err = DoError(DefaultClient, KeyOf(ret))
    /\ KeyOf(ret) \notin DOMAIN pointsCache
    /\ \E k \in DOMAIN pointsCache : pointsCache[k] # Nil

-----------------------------------------------------------------------------
(* The cache under a base URL that changes *)

\* A program that changes the configuration, the base URL with it, between
\* its calls of Points and Forecast.
NextBase ==
    \/ \E url \in BaseURLs : SetBaseURL(url)
    \/ \E uom \in {<<"s", "i">>} : SetUnits(uom)
    \/ \E userAgent \in UserAgents \ {APIKey} : SetUserAgent(userAgent)
    \/ \E accept \in Accepts \ {APIAccept} : SetAcceptHeader(accept)
    \/ \E c \in {GetDefaultConfig, [GetDefaultConfig EXCEPT !.BaseURL = MockURL]} :
        SetConfig(c)
    \/ \E client \in {DefaultClient} : SetClient(client)
    \/ \E lat \in {"41.837"}, lon \in Lons : Points(lat, lon)
    \/ \E lat \in {"41.837"}, lon \in Lons : Forecast(lat, lon)

SpecBase == Init /\ [][NextBase]_vars

\* the operations on the configuration
ConfigOps ==
    {"SetBaseURL", "SetUnits", "SetUserAgent", "SetAcceptHeader", "SetConfig", "SetClient"}

\* the points endpoint of lat and lon under the base URL base
PointsURL(base, lat, lon) == base \o "/points/" \o lat \o "," \o lon

\* C27: no operation on the configuration changes the cache, its records or
\* the history of fetches.  A Points call looks under the key made of the
\* base URL configured when it is made: with no record under that key it
\* sends a request to the endpoint under that base URL, also when the cache
\* holds a record for the same lat and lon under another base URL, and
\* leaves that record where it was; with a record under that key, stored
\* before the base URL was changed and set back, it sends no request and
\* returns that record.
C27_ConfigKeepsCache ==
    [][/\ ret'.op \in ConfigOps =>
            pointsCache' = pointsCache /\ heap' = heap /\ fetched' = fetched
       /\ ret'.op = "Points" =>
            LET key == PointsURL(config.BaseURL, ret'.args[1], ret'.args[2]) IN
            IF At(pointsCache, key) = Nil
            THEN /\ Len(ret'.reqs) = 1 /\ ret'.reqs[1].url = key
                 /\ \A b \in BaseURLs \ {config.BaseURL} :
                      LET other == PointsURL(b, ret'.args[1], ret'.args[2]) IN
                      At(pointsCache', other) = At(pointsCache, other)
            ELSE /\ ret'.reqs = <<>> /\ Succeeded(ret')
                 /\ ret'.result.addr = pointsCache[key]
                 /\ pointsCache' = pointsCache]_vars

\* the record fetched first, under the default base URL, has been returned
\* from the cache after a second record was fetched for the same lat and lon
\* under another base URL
C27_Witness ==
    /\ ret.op = "Points" /\ ret.reqs = <<>> /\ Succeeded(ret)
    /\ config.BaseURL = API /\ ret.result.addr = 1
    /\ At(pointsCache, PointsURL(API, "41.837", "-87.685")) = 1
    /\ At(pointsCache, PointsURL(MockURL, "41.837", "-87.685")) = 2

\* C28: an accessor call leaves the base URL, the user-agent, the accept
\* header and the units of the configuration as they were.  It writes the
\* client, and only when it sends a request while none is configured: the
\* client is http.DefaultClient from then on, and what GetConfig returned
\* before the call is no longer what it returns after it.
C28_AccessorWritesClientOnly ==
    [][ret'.op \in AccessorOps =>
        /\ config'.BaseURL = config.BaseURL
        /\ config'.UserAgent = config.UserAgent
        /\ config'.Accept = config.Accept
        /\ config'.Units = config.Units
        /\ config'.Client = IF config.Client = NilClient /\ ret'.reqs # <<>>
                            THEN DefaultClient ELSE config.Client
        /\ (/\ held.copy = GetConfigCall(config)
            /\ config.Client = NilClient /\ ret'.reqs # <<>>)
              => /\ GetConfigCall(config') # held'.copy
                 /\ GetConfigCall(config').v
                        = [held'.copy.v EXCEPT !.Client = DefaultClient]]_vars

\* Office has sent the first request of the program, and the Config the
\* program got from GetConfig before the call differs from the configuration
\* in the client alone
C28_Witness ==
    /\ ret.op = "Office" /\ Len(ret.reqs) = 1
    /\ held.copy.kind = "Config" /\ held.copy.v.Client = NilClient
    /\ config.Client = DefaultClient
    /\ config = [held.copy.v EXCEPT !.Client = DefaultClient]
    /\ config.UserAgent # APIKey

\* C29 as stated: every successful call of Forecast, HourlyForecast,
\* GridpointForecast or Stations has sent exactly one request to its target
\* endpoint, and every Office call has sent exactly one request.
C29_OneTargetRequest ==
    /\ (ret.op \in ForecastOps /\ Succeeded(ret)) => Cardinality(TargetRequests(ret)) = 1
    /\ ret.op = "Office" => Len(ret.reqs) = 1

\* C29 amended: the cache holds entries under points endpoints alone.  Every
\* successful call of Forecast, HourlyForecast, GridpointForecast or Stations
\* sends exactly one request to its target endpoint, its last request, and
\* that is its only request when the points lookup is served from the cache.
\* An Office call sends exactly one request, whatever calls came before it,
\* unless its id makes a string that is no URL: then it returns the error of
\* http.NewRequest and sends none.  Office leaves the cache as it was.
C29_OneTargetRequestAmended ==
    [][/\ \A k \in DOMAIN pointsCache' :
            \E b \in BaseURLs, a \in Pairs : k = PointsURL(b, a[1], a[2])
       /\ (ret'.op \in ForecastOps /\ Succeeded(ret')) =>
            /\ Cardinality(TargetRequests(ret')) = 1
            /\ TargetRequests(ret') = {Len(ret'.reqs)}
            /\ ret'.reqs[Len(ret'.reqs)].url
                  = FieldOf(ret'.op, heap'[pointsCache'[KeyOf(ret')]])
                      \o (IF ret'.op = "Stations" THEN "" ELSE UnitsSuffix(config.Units))
            /\ At(pointsCache, KeyOf(ret')) # Nil => Len(ret'.reqs) = 1
       /\ ret'.op = "Office" =>
            /\ pointsCache' = pointsCache
            /\ IF ValidURL(config.BaseURL \o "/offices/" \o ret'.args[1])
               THEN /\ Len(ret'.reqs) = 1
                    /\ ret'.reqs[1].url = config.BaseURL \o "/offices/" \o ret'.args[1]
               ELSE /\ ret'.reqs = <<>>
                    /\ ret'.err.type = "*url.Error" /\ ret'.result = NoResult]_vars

\* Stations has succeeded with its target request alone, on a record that
\* was fetched once and is in the cache
C29_Witness ==
    /\ ret.op = "Stations" /\ Succeeded(ret) /\ Len(ret.reqs) = 1
    /\ ret.reqs[1].url = heap[pointsCache[KeyOf(ret)]].EndpointObservationStations
    /\ At(fetched, KeyOf(ret)) = 1

-----------------------------------------------------------------------------
(* Points called from several goroutines *)

(* Points is followed line by line: a goroutine g evaluates the endpoint    *)
(* (line 14), reads the map (line 15), reads it again to return the entry   *)
(* (line 16) or calls decode (lines 18-21), and writes the map and returns  *)
(* (lines 22-23).  Nothing orders the map accesses of two goroutines: when  *)
(* a write of one can overlap an access of another, the runtime may stop    *)
(* the process with a fatal error.                                          *)

\* the process has not been stopped by a fatal error
Alive == ret.out # "fatal"

\* the pcs at which the next thing a goroutine does is a read or a write of
\* pointsCache
MapAccess == {"check", "hit", "store"}

\* line 14: endpoint := config.endpointPoints(lat, lon)
PointsEnter(g, lat, lon) ==
    /\ Alive /\ calls[g].pc = "idle"
    /\ calls' = [calls EXCEPT ![g] =
                    [pc |-> "check", lat |-> lat, lon |-> lon,
                     endpoint |-> endpointPoints(config, lat, lon), points |-> Nil,
                     reqs |-> <<>>]]
    /\ UNCHANGED <<config, pointsCache, heap, fetched, ret, held, period>>

\* line 15: if pointsCache[endpoint] != nil
PointsCheck(g) ==
    /\ Alive /\ calls[g].pc = "check"
    /\ calls' = [calls EXCEPT ![g].pc =
                    IF Lookup(pointsCache, calls[g].endpoint) # Nil THEN "hit" ELSE "decode"]
    /\ UNCHANGED <<config, pointsCache, heap, fetched, ret, held, period>>

\* line 16: return pointsCache[endpoint], nil
PointsHit(g) ==
    /\ Alive /\ calls[g].pc = "hit"
    /\ ret' = AccRet("Points", <<calls[g].lat, calls[g].lon>>, "return",
                     [type |-> IF Lookup(pointsCache, calls[g].endpoint) = Nil
                               THEN "nil" ELSE "*PointsResponse",
                      addr |-> Lookup(pointsCache, calls[g].endpoint), Point |-> Nil,
                      doc |-> ""],
                     NoErr, <<>>)
    /\ calls' = [calls EXCEPT ![g] = Idle]
    /\ UNCHANGED <<config, pointsCache, heap, fetched, held, period>>

\* lines 18-21: err = decode(endpoint, &points), and the return of an error
PointsDecode(g, resp) ==
    /\ Alive /\ calls[g].pc = "decode"
    /\ \E d \in {decode(config, calls[g].endpoint, resp)} :
        /\ config' = [config EXCEPT !.Client = d.client]
        /\ IF d.err # NoErr
           THEN /\ ret' = AccRet("Points", <<calls[g].lat, calls[g].lon>>, "return",
                                 NoResult, d.err, d.reqs)
                /\ calls' = [calls EXCEPT ![g] = Idle]
                /\ UNCHANGED <<heap, fetched>>
           ELSE IF d.v.nil
           THEN /\ calls' = [calls EXCEPT ![g].pc = "store", ![g].reqs = d.reqs]
                /\ UNCHANGED <<heap, fetched, ret>>
           ELSE /\ Len(heap) + 1 <= MaxRecords
                /\ heap' = Append(heap, PointsResponse(d.v.doc))
                /\ fetched' = Count(fetched, calls[g].endpoint)
                /\ calls' = [calls EXCEPT ![g].pc = "store", ![g].points = Len(heap) + 1,
                                          ![g].reqs = d.reqs]
                /\ UNCHANGED ret
    /\ UNCHANGED <<pointsCache, held, period>>

\* lines 22-23: pointsCache[endpoint] = points; return
PointsStore(g) ==
    /\ Alive /\ calls[g].pc = "store"
    /\ pointsCache' = Store(pointsCache, calls[g].endpoint, calls[g].points)
    /\ ret' = AccRet("Points", <<calls[g].lat, calls[g].lon>>, "return",
                     [type |-> IF calls[g].points = Nil THEN "nil" ELSE "*PointsResponse",
                      addr |-> calls[g].points, Point |-> Nil, doc |-> ""],
                     NoErr, calls[g].reqs)
    /\ calls' = [calls EXCEPT ![g] = Idle]
    /\ UNCHANGED <<config, heap, fetched, held, period>>

\* The write of g (line 22) overlaps the map access of h: the runtime stops
\* the process.
MapFault(g, h) ==
    /\ Alive /\ g # h
    /\ calls[g].pc = "store" /\ calls[h].pc \in MapAccess
    /\ ret' = AccRet("Points", <<calls[g].lat, calls[g].lon>>, "fatal", NoResult,
                     [type |-> "fatal error",
                      msg |-> IF calls[h].pc = "store" THEN "concurrent map writes"
                              ELSE "concurrent map read and map write"],
                     <<>>)
    /\ UNCHANGED <<config, pointsCache, heap, fetched, held, period, calls>>

\* Goroutines that call Points for one coordinate pair, with no
\* synchronisation between them.
NextRace ==
    \/ \E g \in Goroutines, lat \in {"41.837"}, lon \in Lons : PointsEnter(g, lat, lon)
    \/ \E g \in Goroutines : PointsCheck(g)
    \/ \E g \in Goroutines : PointsHit(g)
    \/ \E g \in Goroutines, resp \in PointsResponses : PointsDecode(g, resp)
    \/ \E g \in Goroutines : PointsStore(g)
    \/ \E g \in Goroutines, h \in Goroutines : MapFault(g, h)

SpecRace == Init /\ [][NextRace]_vars

\* goroutine g goes from pc a to pc b in the step
Goes(g, a, b) == calls[g].pc = a /\ calls'[g].pc = b

\* C30 as stated: whenever calls of Points interleave, every call that has
\* fetched a record stores it, the cache holds for the endpoint the record
\* of the call that stored last, and a call that finds an entry returns it.
C30_LastStoreWins ==
    [][/\ ret'.out # "fatal"
       /\ \A g \in Goroutines :
            /\ Goes(g, "store", "idle")
                  => At(pointsCache', calls[g].endpoint) = calls[g].points
            /\ Goes(g, "hit", "idle")
                  => ret'.result.addr = At(pointsCache, calls[g].endpoint)]_vars

\* C30, with the fatal error of the runtime let in: a call passes the check
\* exactly when the cache holds no
\* record for its endpoint at that moment, whatever other calls have passed
\* it before, and then sends its own request.  The process is stopped by a
\* fatal error only when a goroutine about to write the map meets another
\* one about to read or write it, and then nothing more is stored.  In every
\* other step, a call that stores puts its own record under its endpoint in
\* place of the entry that was there, leaves the other entries and returns
\* its record, and a call that has found an entry returns, with no request,
\* what the cache holds for the endpoint when it returns.
C30_LastStoreWinsUnlessFault ==
    [][/\ ret'.out = "fatal" =>
            /\ \E g \in Goroutines : \E h \in Goroutines \ {g} :
                  calls[g].pc = "store" /\ calls[h].pc \in MapAccess
            /\ pointsCache' = pointsCache /\ calls' = calls
       /\ ret'.out # "fatal" =>
            \A g \in Goroutines :
                LET endpoint == calls[g].endpoint IN
                /\ Goes(g, "check", "decode") => At(pointsCache, endpoint) = Nil
                /\ Goes(g, "check", "hit") => At(pointsCache, endpoint) # Nil
                /\ (calls[g].pc = "check" /\ calls'[g] # calls[g])
                      => calls'[g].pc \in {"decode", "hit"}
                /\ calls[g].pc = "decode" /\ calls'[g] # calls[g] =>
                      /\ Len(ret'.reqs) + Len(calls'[g].reqs) >= 1
                      /\ \A i \in DOMAIN calls'[g].reqs : calls'[g].reqs[i].url = endpoint
                /\ Goes(g, "store", "idle") =>
                      /\ DOMAIN pointsCache' = DOMAIN pointsCache \cup {endpoint}
                      /\ \A k \in DOMAIN pointsCache' :
                            pointsCache'[k] = IF k = endpoint THEN calls[g].points
                                              ELSE pointsCache[k]
                      /\ ret'.result.addr = calls[g].points
                      /\ Len(ret'.reqs) = 1
                /\ Goes(g, "hit", "idle") =>
                      /\ ret'.reqs = <<>>
                      /\ ret'.result.addr = At(pointsCache, endpoint)
                      /\ pointsCache' = pointsCache]_vars

\* two calls have each fetched a record for the one endpoint, both have
\* stored, and the cache holds the record fetched first, which was stored
\* last and is what the latest call returned
C30_Witness ==
    /\ \A g \in Goroutines : calls[g].pc = "idle"
    /\ ret.op = "Points" /\ ret.out = "return" /\ Len(ret.reqs) = 1
    /\ At(fetched, KeyOf(ret)) = 2 /\ Len(heap) = 2
    /\ At(pointsCache, KeyOf(ret)) = 1
    /\ ret.result.addr = 1

====
